---- MODULE Spec2Model ----
(***************************************************************************)
(* Model of abswt/elements.py: ParameterExtractor, Locator, Finder and     *)
(* FluentFinder.                                                           *)
(*                                                                         *)
(* A Python str is a sequence of one-character strings.  Indexes into a    *)
(* str are 0-based, as in the source; At, find and Slice do the shift.     *)
(***************************************************************************)
EXTENDS Integers, Sequences, FiniteSets, TLC

VARIABLES
    \* ParameterExtractor.get_parameters, run step by step
    text,         \* ParameterExtractor.__text
    params,       \* local `params`
    param,        \* local `param` (None or a str)
    last_index,   \* local `last_index`
    pc,           \* position in get_parameters
    \* Locator
    using,        \* Locator.__using
    value,        \* Locator.__value
    extractor,    \* Locator.__parameter_extractor.__text
    kwargs,       \* keyword arguments of the latest get_by call
    outcome,      \* what the latest get_by call returned or raised
    first_kwargs, \* keyword arguments of the first get_by call
    first_outcome,\* what the first get_by call returned or raised
    \* Finder / FluentFinder and the process they live in
    finders,      \* the FluentFinder instances constructed so far
    handlers,     \* logging.getLogger('abs-finder').handlers
    call,         \* the latest find_element / find_elements call
    log,          \* what that call wrote, per stream
    waits,        \* the WebDriverWait(...).until(...) invocations of that call
    result        \* what that call returned or raised

vars == <<text, params, param, last_index, pc,
          using, value, extractor, kwargs, outcome, first_kwargs, first_outcome,
          finders, handlers, call, log, waits, result>>

extractVars == <<text, params, param, last_index, pc>>
locatorVars == <<using, value, extractor, kwargs, outcome, first_kwargs, first_outcome>>
finderVars  == <<finders, handlers, call, log, waits, result>>

(***************************************************************************)
(* Bounds                                                                  *)
(***************************************************************************)
\* longest text given to the extractor and longest Locator template
MaxLen == 6
\* longest Locator template in the specification of repeated get_by calls
MaxSeqLen == 3
\* most FluentFinder instances constructed
MaxFinders == 2
\* largest timeout, in seconds, that a caller passes or configures
MaxTimeout == 2

\* Python's None, where a str is expected (Optional[str])
None == [none |-> TRUE, str |-> <<>>]

\* a str, where None is possible too
Some(s) == [none |-> FALSE, str |-> s]

\* the characters texts are made of
Alphabet == {"{", "}", "a", "b"}

\* all texts of at most n characters
Texts(n) == UNION {[1..k -> Alphabet] : k \in 0..n}

(***************************************************************************)
(* str primitives                                                          *)
(***************************************************************************)
\* s[i]
At(s, i) == s[i + 1]

\* s.find(ch, start): the lowest index >= start holding ch, or -1
find(s, ch, start) ==
    LET hits == {i \in start..(Len(s) - 1) : At(s, i) = ch}
    IN  IF hits = {} THEN -1 ELSE CHOOSE i \in hits : \A j \in hits : i <= j

\* s[lo:hi] for 0 <= lo and 0 <= hi
Slice(s, lo, hi) ==
    LET h == IF hi > Len(s) THEN Len(s) ELSE hi
    IN  IF lo >= h THEN <<>> ELSE SubSeq(s, lo + 1, h)

(***************************************************************************)
(* ParameterExtractor                                                      *)
(***************************************************************************)
\* __find_param without the `open > close` test
find_param_unordered(s, start_index) ==
    LET open  == find(s, "{", start_index)
        close == find(s, "}", start_index + 1)
    IN  IF open = -1 \/ close = -1
        THEN [param |-> None, last_index |-> -1]
        ELSE [param |-> Some(Slice(s, open + 1, close)), last_index |-> close]

\* __find_param searching the `}` from the `{` it found
find_param_after_open(s, start_index) ==
    LET open  == find(s, "{", start_index)
        close == IF open = -1 THEN -1 ELSE find(s, "}", open + 1)
    IN  IF open = -1 \/ close = -1
        THEN [param |-> None, last_index |-> -1]
        ELSE [param |-> Some(Slice(s, open + 1, close)), last_index |-> close]

\* ParameterExtractor.__find_param(start_index) -> (param, last_index)
find_param(s, start_index) ==
    LET open  == find(s, "{", start_index)
        close == find(s, "}", start_index + 1)
    IN  IF open = -1 \/ close = -1
        THEN [param |-> None, last_index |-> -1]
        ELSE IF open > close
        THEN [param |-> None, last_index |-> -1]
        ELSE [param |-> Some(Slice(s, open + 1, close)), last_index |-> close]

\* the while loop of get_parameters, from the state (found, acc)
RECURSIVE get_parameters_loop(_, _, _)
get_parameters_loop(s, found, acc) ==
    IF found.param # None /\ found.last_index > -1
    THEN get_parameters_loop(s, find_param(s, found.last_index), Append(acc, found.param.str))
    ELSE acc

\* ParameterExtractor(s).get_parameters()
get_parameters(s) == get_parameters_loop(s, find_param(s, 0), <<>>)

\* ---- get_parameters as steps -------------------------------------------
\* lines 31-32: params = []; param, last_index = self.__find_param(0)
ExtractStart ==
    /\ pc = "start"
    /\ LET f == find_param(text, 0)
       IN  /\ param' = f.param
           /\ last_index' = f.last_index
    /\ params' = <<>>
    /\ pc' = "loop"
    /\ UNCHANGED <<text>>
    /\ UNCHANGED locatorVars
    /\ UNCHANGED finderVars

\* lines 33-35: one iteration of the while loop
ExtractIterate ==
    /\ pc = "loop"
    /\ param # None /\ last_index > -1
    /\ params' = Append(params, param.str)
    /\ LET f == find_param(text, last_index)
       IN  /\ param' = f.param
           /\ last_index' = f.last_index
    /\ pc' = "loop"
    /\ UNCHANGED <<text>>
    /\ UNCHANGED locatorVars
    /\ UNCHANGED finderVars

\* lines 33, 36: the loop condition fails; return params
ExtractReturn ==
    /\ pc = "loop"
    /\ ~(param # None /\ last_index > -1)
    /\ pc' = "done"
    /\ UNCHANGED <<text, params, param, last_index>>
    /\ UNCHANGED locatorVars
    /\ UNCHANGED finderVars

(***************************************************************************)
(* Locator                                                                 *)
(***************************************************************************)
\* class Using(Enum): the member names
Using == {"ID", "NAME", "XPATH", "CLASS", "CSS", "TAG_NAME", "LINK_TEXT", "PARTIAL_LINK_TEXT"}

\* Using.<member>.value, as a str
UsingValue(u) ==
    CASE u = "ID"                -> <<"i", "d">>
      [] u = "NAME"              -> <<"n", "a", "m", "e">>
      [] u = "XPATH"             -> <<"x", "p", "a", "t", "h">>
      [] u = "CLASS"             -> <<"c", "l", "a", "s", "s", " ", "n", "a", "m", "e">>
      [] u = "CSS"               -> <<"c", "s", "s", " ", "s", "e", "l", "e", "c", "t", "o", "r">>
      [] u = "TAG_NAME"          -> <<"t", "a", "g", " ", "n", "a", "m", "e">>
      [] u = "LINK_TEXT"         -> <<"l", "i", "n", "k", " ", "t", "e", "x", "t">>
      [] u = "PARTIAL_LINK_TEXT" -> <<"p", "a", "r", "t", "i", "a", "l", " ",
                                      "l", "i", "n", "k", " ", "t", "e", "x", "t">>

\* the keyword names a caller passes to get_by
KeyNames == {<<"a">>, <<"b">>, <<"a", "b">>}

\* the values a caller passes: a str and an int
StrValue(s) == [kind |-> "str", s |-> s, n |-> 0]
IntValue(n) == [kind |-> "int", s |-> <<>>, n |-> n]
Values == {StrValue(<<"x">>), IntValue(7)}

\* every **kwargs a caller passes: a dict from some of the names to values
Kwargs == UNION {[K -> Values] : K \in SUBSET KeyNames}

\* the keyword arguments of the repeated calls: a str for some of "a" and "b"
KwargsSeq ==
    {kw \in Kwargs : /\ DOMAIN kw \subseteq {<<"a">>, <<"b">>}
                     /\ \A k \in DOMAIN kw : kw[k].kind = "str"}

\* the decimal digits of a natural number, as a str
RECURSIVE Digits(_)
Digits(n) ==
    LET d == <<"0", "1", "2", "3", "4", "5", "6", "7", "8", "9">>[(n % 10) + 1]
    IN  IF n < 10 THEN <<d>> ELSE Append(Digits(n \div 10), d)

\* format(v, ''), the string form str.format gives a value
Str(v) == IF v.kind = "int" THEN Digits(v.n) ELSE v.s

\* what a call does: nothing yet, return a value, or raise
NoOutcome == [kind |-> "none", by |-> <<>>, exc |-> "", msg |-> "", names |-> <<>>]
Return(by) == [kind |-> "return", by |-> by, exc |-> "", msg |-> "", names |-> <<>>]
Raise(exc, msg, names) == [kind |-> "raise", by |-> <<>>, exc |-> exc, msg |-> msg, names |-> names]

\* the end of the replacement field that starts after the `{` at index i:
\* the index of the first `{` or `}` at or after i + 1, or -1
FieldEnd(s, i) ==
    LET hits == {j \in (i + 1)..(Len(s) - 1) : At(s, j) \in {"{", "}"}}
    IN  IF hits = {} THEN -1 ELSE CHOOSE j \in hits : \A k \in hits : j <= k

\* s.format(**kw) from index i on, with `out` already produced:
\* Return(str), or Raise of a ValueError, IndexError or KeyError
RECURSIVE format_from(_, _, _, _)
format_from(s, kw, i, out) ==
    IF i >= Len(s) THEN Return(out)
    ELSE IF At(s, i) = "}"
    THEN IF i + 1 < Len(s) /\ At(s, i + 1) = "}"
         THEN format_from(s, kw, i + 2, Append(out, "}"))
         ELSE Raise("ValueError", "Single '}' encountered in format string", <<>>)
    ELSE IF At(s, i) = "{"
    THEN IF i + 1 >= Len(s)
         THEN Raise("ValueError", "Single '{' encountered in format string", <<>>)
         ELSE IF At(s, i + 1) = "{"
         THEN format_from(s, kw, i + 2, Append(out, "{"))
         ELSE LET j == FieldEnd(s, i)
                  name == Slice(s, i + 1, j)
              IN  IF j = -1
                  THEN Raise("ValueError", "expected '}' before end of string", <<>>)
                  ELSE IF At(s, j) = "{"
                  THEN Raise("ValueError", "unexpected '{' in field name", <<>>)
                  ELSE IF name = <<>>
                  THEN Raise("IndexError", "positional argument index out of range", <<>>)
                  ELSE IF name \notin DOMAIN kw
                  THEN Raise("KeyError", "", <<name>>)
                  ELSE format_from(s, kw, j + 1, out \o Str(kw[name]))
    ELSE format_from(s, kw, i + 1, Append(out, At(s, i)))

\* str.format(**kw)
format(s, kw) == format_from(s, kw, 0, <<>>)

\* Locator.parameters
parameters(ext) == get_parameters(ext)

\* Locator.is_parameterized
is_parameterized(ext) == Len(parameters(ext)) > 0

\* the indexes of the parameters that kw has no key for
Absent(ps, kw) == {i \in 1..Len(ps) : ps[i] \notin DOMAIN kw}

\* __validate_parameters reporting the last absent parameter
validate_parameters_last(ext, kw) ==
    LET ps == parameters(ext)
        absent == Absent(ps, kw)
    IN  IF absent = {} THEN NoOutcome
        ELSE Raise("ValueError", "get_by method is missing keyword argument: ",
                   <<ps[CHOOSE i \in absent : \A j \in absent : j <= i]>>)

\* Locator.__validate_parameters(**kw): raises at the first parameter,
\* in the order of self.parameters, that is no key of kw; else returns None
validate_parameters(ext, kw) ==
    LET ps == parameters(ext)
        absent == Absent(ps, kw)
    IN  IF absent = {} THEN NoOutcome
        ELSE Raise("ValueError", "get_by method is missing keyword argument: ",
                   <<ps[CHOOSE i \in absent : \A j \in absent : i <= j]>>)

\* __parameterize_value without the test for no keyword arguments at all
parameterize_value_no_empty_test(v, ext, kw) ==
    IF validate_parameters(ext, kw).kind = "raise" THEN validate_parameters(ext, kw)
    ELSE format(v, kw)

\* Locator.__parameterize_value(**kw)
parameterize_value(v, ext, kw) ==
    IF Cardinality(DOMAIN kw) = 0
    THEN Raise("ValueError", "get_by method is missing keyword arguments: ", parameters(ext))
    ELSE IF validate_parameters(ext, kw).kind = "raise" THEN validate_parameters(ext, kw)
    ELSE format(v, kw)

\* __get_value formatting the value whether parameterized or not
get_value_always_format(v, ext, kw) ==
    IF is_parameterized(ext) THEN parameterize_value(v, ext, kw) ELSE format(v, kw)

\* Locator.__get_value(**kw)
get_value(v, ext, kw) ==
    IF is_parameterized(ext) THEN parameterize_value(v, ext, kw) ELSE Return(v)

\* Locator.get_by(**kw): (self.using.value, self.__get_value(**kw))
get_by(u, v, ext, kw) ==
    LET got == get_value(v, ext, kw)
    IN  IF got.kind = "raise" THEN got ELSE Return(<<UsingValue(u), got.by>>)

\* get_by keeping the value it built as the Locator's value
get_by_call_storing(kw) ==
    /\ kwargs' = kw
    /\ outcome' = get_by(using, value, extractor, kw)
    /\ first_kwargs' = IF first_outcome.kind = "none" THEN kw ELSE first_kwargs
    /\ first_outcome' = IF first_outcome.kind = "none" THEN outcome' ELSE first_outcome
    /\ value' = IF outcome'.kind = "return" THEN outcome'.by[2] ELSE value
    /\ UNCHANGED <<using, extractor>>
    /\ UNCHANGED extractVars
    /\ UNCHANGED finderVars

\* a call locator.get_by(**kw)
get_by_call(kw) ==
    /\ kwargs' = kw
    /\ outcome' = get_by(using, value, extractor, kw)
    /\ first_kwargs' = IF first_outcome.kind = "none" THEN kw ELSE first_kwargs
    /\ first_outcome' = IF first_outcome.kind = "none" THEN outcome' ELSE first_outcome
    /\ UNCHANGED <<using, value, extractor>>
    /\ UNCHANGED extractVars
    /\ UNCHANGED finderVars

\* get_by called on a Locator that has not been used yet
GetByFresh == \E kw \in Kwargs : outcome.kind = "none" /\ get_by_call(kw)

\* get_by called on a Locator, used before or not
GetByAgain == \E kw \in KwargsSeq : get_by_call(kw)

(***************************************************************************)
(* Finder / FluentFinder                                                   *)
(***************************************************************************)
\* Python's None, where an int is expected
NoneInt == [none |-> TRUE, n |-> 0]
SomeInt(n) == [none |-> FALSE, n |-> n]

\* Python's None, where a condition (a callable) is expected
NoneCondition == [none |-> TRUE, name |-> ""]
SomeCondition(c) == [none |-> FALSE, name |-> c]

\* bool(x) of an Optional[int]: None and 0 are false
TruthyInt(x) == ~x.none /\ x.n # 0

\* bool(x) of an optional callable: only None is false
TruthyCondition(x) == ~x.none

\* FluentFinder.default_single_condition, default_multi_condition
default_single_condition == "presence_of_element_located"
default_multi_condition == "presence_of_all_elements_located"

\* the timeout arguments a caller passes, None being the default
TimeoutArgs == {NoneInt} \cup {SomeInt(n) : n \in 0..MaxTimeout}

\* the condition arguments a caller passes, None being the default
ConditionArgs == {NoneCondition, SomeCondition("visibility_of_element_located")}

\* the locator tuples a caller passes
LocatorTuples == {<<"id", "login">>, <<"xpath", "//button">>}

\* what WebDriverWait(driver, t).until(condition) does: it returns what the
\* condition found, or raises TimeoutException
WaitOutcomes == {Return(<<"element1">>), Raise("TimeoutException", "", <<>>)}

NoCall == [kind |-> "none", finder |-> 0, locator_tuple |-> <<>>,
           timeout |-> NoneInt, condition |-> NoneCondition, constructed |-> 0]

\* logging.Logger.addHandler: a handler already attached is not attached again
addHandler(hs, h) == IF \E i \in 1..Len(hs) : hs[i] = h THEN hs ELSE Append(hs, h)

\* Finder.__init__ attaching no second handler to a logger that has one
Finder_init_handlers_once(hs) ==
    IF Len(hs) > 0 THEN hs ELSE addHandler(hs, [stream |-> "stdout", id |-> 1])

\* Finder.__init__: the handlers of logging.getLogger('abs-finder') after
\* logger.addHandler(logging.StreamHandler(sys.stdout)), the handler a new object
Finder_init_handlers(hs) == addHandler(hs, [stream |-> "stdout", id |-> Len(hs) + 1])

\* FluentFinder.__init__(webdriver, default_timeout)
FluentFinder_init(default_timeout) ==
    /\ Len(finders) < MaxFinders
    /\ finders' = Append(finders, [default_timeout |-> default_timeout])
    /\ handlers' = Finder_init_handlers(handlers)
    /\ UNCHANGED <<call, log, waits, result>>
    /\ UNCHANGED extractVars
    /\ UNCHANGED locatorVars

\* t = timeout if timeout else self.default_timeout
EffectiveTimeout(f, timeout) ==
    IF TruthyInt(timeout) THEN timeout.n ELSE finders[f].default_timeout

\* the class's default condition of a method
DefaultCondition(m) ==
    IF m = "find_element" THEN default_single_condition ELSE default_multi_condition

\* c = condition if condition else self.default_<single|multi>_condition
EffectiveCondition(m, condition) ==
    IF TruthyCondition(condition) THEN condition.name ELSE DefaultCondition(m)

\* self.logger.debug(line): the logger is at level DEBUG, so every handler
\* attached to it writes the line to its stream
debug(hs, line) == [i \in 1..Len(hs) |-> [stream |-> hs[i].stream, line |-> line]]

\* one WebDriverWait(self.webdriver, t).until(c(locator_tuple))
until(t, c, locator_tuple, r) ==
    [timeout |-> t, condition |-> c, locator_tuple |-> locator_tuple, outcome |-> r]

\* a finder that waits a second time when the first wait raised
FindCallRetrying(f, m, locator_tuple, timeout, condition, r) ==
    LET t == EffectiveTimeout(f, timeout)
        c == EffectiveCondition(m, condition)
    IN  /\ call' = [kind |-> m, finder |-> f, locator_tuple |-> locator_tuple,
                    timeout |-> timeout, condition |-> condition,
                    constructed |-> Len(finders)]
        /\ log' = debug(handlers, [method |-> m, locator_tuple |-> locator_tuple,
                                   timeout |-> t, condition |-> c])
        /\ waits' = IF r.kind = "raise"
                    THEN <<until(t, c, locator_tuple, r), until(t, c, locator_tuple, r)>>
                    ELSE <<until(t, c, locator_tuple, r)>>
        /\ result' = r
        /\ UNCHANGED <<finders, handlers>>
        /\ UNCHANGED extractVars
        /\ UNCHANGED locatorVars

\* finders[f].find_element(locator_tuple, timeout, condition) when m is
\* "find_element", finders[f].find_elements(...) when m is "find_elements";
\* r is what the wait does
FindCall(f, m, locator_tuple, timeout, condition, r) ==
    LET t == EffectiveTimeout(f, timeout)
        c == EffectiveCondition(m, condition)
    IN  /\ call' = [kind |-> m, finder |-> f, locator_tuple |-> locator_tuple,
                    timeout |-> timeout, condition |-> condition,
                    constructed |-> Len(finders)]
        /\ log' = debug(handlers, [method |-> m, locator_tuple |-> locator_tuple,
                                   timeout |-> t, condition |-> c])
        /\ waits' = <<until(t, c, locator_tuple, r)>>
        /\ result' = r
        /\ UNCHANGED <<finders, handlers>>
        /\ UNCHANGED extractVars
        /\ UNCHANGED locatorVars

\* FluentFinder(webdriver, default_timeout)
Construct == \E dt \in 0..MaxTimeout : FluentFinder_init(dt)

\* finder.find_element(locator_tuple, timeout, condition)
find_element ==
    \E f \in 1..Len(finders), l \in LocatorTuples, t \in TimeoutArgs,
       c \in ConditionArgs, r \in WaitOutcomes :
        FindCall(f, "find_element", l, t, c, r)

\* finder.find_elements(locator_tuple, timeout, condition)
find_elements ==
    \E f \in 1..Len(finders), l \in LocatorTuples, t \in TimeoutArgs,
       c \in ConditionArgs, r \in WaitOutcomes :
        FindCall(f, "find_elements", l, t, c, r)

\* the parts of the state a specification does not use
IdleExtract ==
    /\ text = <<>> /\ params = <<>> /\ param = None /\ last_index = -1 /\ pc = "idle"

IdleLocator ==
    /\ using = "XPATH" /\ value = <<>> /\ extractor = <<>>
    /\ kwargs = <<>> /\ outcome = NoOutcome
    /\ first_kwargs = <<>> /\ first_outcome = NoOutcome

IdleFinder ==
    /\ finders = <<>> /\ handlers = <<>> /\ call = NoCall
    /\ log = <<>> /\ waits = <<>> /\ result = NoOutcome

\* ParameterExtractor(text) for every text of at most MaxLen characters
InitExtract ==
    /\ text \in Texts(MaxLen)
    /\ params = <<>> /\ param = None /\ last_index = -1
    /\ pc = "start"
    /\ IdleLocator
    /\ IdleFinder

NextExtract == ExtractStart \/ ExtractIterate \/ ExtractReturn

SpecExtract == InitExtract /\ [][NextExtract]_vars

\* get_parameters is one synchronous call: once called it runs on
SpecExtractFair == SpecExtract /\ WF_vars(NextExtract)

\* the members of Using that the templates of at most MaxLen characters are tried with
UsingSample == {"XPATH", "CLASS"}

\* Locator(using, value) for every template of at most MaxLen characters;
\* no parameter_extractor is passed, so it is ParameterExtractor(value)
InitLocator ==
    /\ using \in UsingSample
    /\ value \in Texts(MaxLen)
    /\ extractor = value
    /\ kwargs = <<>> /\ outcome = NoOutcome
    /\ first_kwargs = <<>> /\ first_outcome = NoOutcome
    /\ IdleExtract
    /\ IdleFinder

NextLocator == GetByFresh

\* one get_by call on each Locator
SpecLocator == InitLocator /\ [][NextLocator]_vars

\* Locator(using, value) for every member of Using and every template of at
\* most MaxSeqLen characters
InitLocatorSeq ==
    /\ using \in Using
    /\ value \in Texts(MaxSeqLen)
    /\ extractor = value
    /\ kwargs = <<>> /\ outcome = NoOutcome
    /\ first_kwargs = <<>> /\ first_outcome = NoOutcome
    /\ IdleExtract
    /\ IdleFinder

NextLocatorSeq == GetByAgain

\* any number of get_by calls on each Locator
SpecLocatorSeq == InitLocatorSeq /\ [][NextLocatorSeq]_vars

\* a process that has constructed no Finder yet
InitFinder ==
    /\ finders = <<>> /\ handlers = <<>> /\ call = NoCall
    /\ log = <<>> /\ waits = <<>> /\ result = NoOutcome
    /\ IdleExtract
    /\ IdleLocator

NextFinder == Construct \/ find_element \/ find_elements

SpecFinder == InitFinder /\ [][NextFinder]_vars

(***************************************************************************)
(* Properties of ParameterExtractor                                        *)
(***************************************************************************)
\* the scan that pairs each `{` with the next `}` after that `{`
RECURSIVE ScanMatching(_, _)
ScanMatching(s, cursor) ==
    LET open  == find(s, "{", cursor)
        close == IF open = -1 THEN -1 ELSE find(s, "}", open + 1)
    IN  IF open = -1 \/ close = -1 THEN <<>>
        ELSE <<Slice(s, open + 1, close)>> \o ScanMatching(s, close + 1)

\* the scan that looks for the `{` and for the `}` from the cursor, each on
\* its own; on the first pass the `}` is looked for after index 0
RECURSIVE ScanFromCursor(_, _, _)
ScanFromCursor(s, cursor, first) ==
    LET open  == find(s, "{", cursor)
        close == find(s, "}", IF first THEN 1 ELSE cursor)
    IN  IF open = -1 \/ close = -1 \/ close < open THEN <<>>
        ELSE <<Slice(s, open + 1, close)>> \o ScanFromCursor(s, close + 1, FALSE)

\* the number of times ch occurs in s
Count(s, ch) == Cardinality({i \in 1..Len(s) : s[i] = ch})

\* p is a prefix of q
IsPrefix(p, q) == Len(p) <= Len(q) /\ SubSeq(q, 1, Len(p)) = p

\* C6 as stated: get_parameters returns the names found by pairing each `{`
\* at or after the cursor with the next `}` after that `{`.
C6_ScanAsClaimed == pc = "done" => params = ScanMatching(text, 0)

\* C6 as amended: get_parameters returns the names found by looking, from the
\* cursor, for the next `{` and independently for the next `}` (after index 0
\* on the first pass), stopping when either is absent or the `}` precedes the
\* `{`; a text with no brace pair gives [], and a text whose only braces are
\* one `{name}` gives [name].
C6_ScanAsAmended ==
    pc = "done" =>
        /\ params = ScanFromCursor(text, 0, TRUE)
        /\ (Count(text, "{") = 0 \/ Count(text, "}") = 0) => params = <<>>
        /\ (/\ Count(text, "{") = 1 /\ Count(text, "}") = 1
            /\ find(text, "{", 0) < find(text, "}", 0))
           => params = <<Slice(text, find(text, "{", 0) + 1, find(text, "}", 0))>>

\* a finished extraction that found the same name twice, and one whose text
\* starts with a `}` that the first pass does not look at
C6_Witness ==
    /\ pc = "done"
    /\ \/ Len(params) = 2 /\ params[1] = params[2] /\ params[1] # <<>>
       \/ Len(text) > 0 /\ text[1] = "}" /\ Len(params) = 1

\* C7: get_parameters terminates: every iteration that goes on moves the scan
\* index forward, within the text; it returns a list, which for unbalanced
\* braces is cut short (a prefix of the properly paired names), and which is
\* empty when the only brace is an unmatched `{`.
C7_Terminates ==
    /\ <>(pc = "done")
    /\ [][(pc = "loop" /\ pc' = "loop") =>
            (last_index' = -1 \/ (last_index < last_index' /\ last_index' < Len(text)))]_vars
    /\ [](pc = "done" =>
            /\ IsPrefix(params, ScanMatching(text, 0))
            /\ (Count(text, "{") = 1 /\ Count(text, "}") = 0) => params = <<>>)

\* a finished extraction that unbalanced braces cut short after a first name
C7_Witness ==
    /\ pc = "done"
    /\ Len(params) >= 1
    /\ Len(params) < Len(ScanMatching(text, 0))

(***************************************************************************)
(* Properties of Locator                                                   *)
(***************************************************************************)
\* get_by has been called
Called == outcome.kind # "none"

\* the name, among names, whose placeholder `{name}` starts at index i of s
PlaceholderAt(s, i, names) ==
    {n \in names : Slice(s, i, i + Len(n) + 2) = <<"{">> \o n \o <<"}">>}

\* s with every `{name}`, name a key of kw, replaced by the string form of
\* kw[name], and every other character kept
RECURSIVE LiteralSubstitute(_, _, _)
LiteralSubstitute(s, kw, i) ==
    IF i >= Len(s) THEN <<>>
    ELSE LET here == PlaceholderAt(s, i, DOMAIN kw)
         IN  IF here = {} THEN <<At(s, i)>> \o LiteralSubstitute(s, kw, i + 1)
             ELSE LET n == CHOOSE n \in here : TRUE
                  IN  Str(kw[n]) \o LiteralSubstitute(s, kw, i + Len(n) + 2)

\* the parameters of the Locator's template, as a set
ParameterSet == {parameters(value)[i] : i \in 1..Len(parameters(value))}

\* C1: with a key for every extracted placeholder, get_by returns the pair
\* of the strategy's string and the template with every `{name}` literally
\* replaced.
C1_LiteralSubstitution ==
    (Called /\ is_parameterized(value) /\ ParameterSet \subseteq DOMAIN kwargs) =>
        outcome = Return(<<UsingValue(using), LiteralSubstitute(value, kwargs, 0)>>)

\* C3: with some keyword arguments but not all the required ones, get_by
\* raises the ValueError that names the first absent placeholder, in template
\* order.
C3_FirstMissing ==
    (/\ Called /\ is_parameterized(value)
     /\ DOMAIN kwargs # {}
     /\ ~(ParameterSet \subseteq DOMAIN kwargs)) =>
        \E i \in 1..Len(parameters(value)) :
            /\ parameters(value)[i] \notin DOMAIN kwargs
            /\ \A j \in 1..(i - 1) : parameters(value)[j] \in DOMAIN kwargs
            /\ outcome = Raise("ValueError", "get_by method is missing keyword argument: ",
                               <<parameters(value)[i]>>)

\* a call with keyword arguments that lack two different placeholders
C3_Witness ==
    /\ Called /\ DOMAIN kwargs # {}
    /\ outcome.kind = "raise"
    /\ Len(parameters(value)) = 2
    /\ parameters(value)[1] # parameters(value)[2]
    /\ ParameterSet \cap DOMAIN kwargs = {}
    /\ outcome.names = <<parameters(value)[1]>>

\* C4: with no keyword arguments at all, get_by on a parameterized template
\* raises the ValueError that lists every extracted name, in template order.
C4_AllMissing ==
    (Called /\ is_parameterized(value) /\ DOMAIN kwargs = {}) =>
        /\ outcome = Raise("ValueError", "get_by method is missing keyword arguments: ",
                           ScanFromCursor(value, 0, TRUE))
        /\ outcome.kind # "return"

\* a call without keyword arguments on a template with two placeholders
C4_Witness ==
    /\ Called /\ DOMAIN kwargs = {}
    /\ outcome.kind = "raise"
    /\ Len(outcome.names) = 2

\* C5: when the extractor finds no placeholder in the template, get_by
\* returns the strategy's string and the template unchanged, whatever the
\* keyword arguments, and does not raise.
C5_Unparameterized ==
    (Called /\ Len(get_parameters(value)) = 0) =>
        outcome = Return(<<UsingValue(using), value>>)

\* a call with keyword arguments on a template with braces and no placeholder
C5_Witness ==
    /\ Called /\ DOMAIN kwargs # {}
    /\ Count(value, "{") > 0 /\ Count(value, "}") > 0
    /\ Len(get_parameters(value)) = 0
    /\ outcome.kind = "return"

\* C8: get_by leaves using, value and parameters as they were, and a call
\* with the keyword arguments of the first call has the outcome of the first.
C8_Immutable ==
    /\ [][/\ using' = using
          /\ value' = value
          /\ parameters(extractor)' = parameters(extractor)]_vars
    /\ []((Called /\ kwargs = first_kwargs) => outcome = first_outcome)

\* a Locator whose first call failed for a missing argument and whose latest
\* call returned
C8_Witness ==
    /\ first_outcome.kind = "raise"
    /\ first_outcome.exc = "ValueError"
    /\ outcome.kind = "return"
    /\ kwargs # first_kwargs

(***************************************************************************)
(* Properties of FluentFinder                                              *)
(***************************************************************************)
\* C2: the wait gets the caller's timeout whenever one is passed (anything
\* but None, 0 included) and the caller's condition whenever one is passed;
\* the defaults are used only for an argument that was not passed.
C2_ExplicitOverride ==
    call.kind # "none" =>
        /\ Len(waits) >= 1
        /\ waits[1].timeout =
              (IF call.timeout.none THEN finders[call.finder].default_timeout
               ELSE call.timeout.n)
        /\ waits[1].condition =
              (IF call.condition.none THEN DefaultCondition(call.kind)
               ELSE call.condition.name)

\* C9: a find call invokes the wait exactly once, for the given locator
\* tuple and with the timeout and condition the call settled on (those of
\* its debug line); what the wait returns or raises is what the call
\* returns or raises.
C9_SingleWait ==
    call.kind # "none" =>
        /\ Len(waits) = 1
        /\ waits[1].locator_tuple = call.locator_tuple
        /\ \A i \in 1..Len(log) :
              /\ log[i].line.timeout = waits[1].timeout
              /\ log[i].line.condition = waits[1].condition
        /\ \/ waits[1].timeout = finders[call.finder].default_timeout
           \/ ~call.timeout.none /\ waits[1].timeout = call.timeout.n
        /\ \/ waits[1].condition = DefaultCondition(call.kind)
           \/ ~call.condition.none /\ waits[1].condition = call.condition.name
        /\ result = waits[1].outcome

\* a find_element call whose wait raised TimeoutException
C9_Witness ==
    /\ call.kind = "find_element"
    /\ result.kind = "raise"
    /\ result.exc = "TimeoutException"
    /\ Len(waits) = 1

\* C10: the logger 'abs-finder' has one stdout handler per Finder
\* constructed, and a find call's debug line is written to stdout once per
\* Finder constructed by then.
C10_HandlerPerFinder ==
    /\ Len(handlers) = Len(finders)
    /\ \A i \in 1..Len(handlers) : handlers[i].stream = "stdout"
    /\ call.kind # "none" =>
          /\ Len(log) = call.constructed
          /\ \A i \in 1..Len(log) : log[i].stream = "stdout" /\ log[i].line = log[1].line

\* a find call made after two finders were constructed, its line written twice
C10_Witness ==
    /\ call.kind # "none"
    /\ call.constructed = 2
    /\ Len(log) = 2

====
